---- MODULE Spec2Model ----
(***************************************************************************)
(* Model of scripts/visualizacion_burbujas.py: a single-pass report        *)
(* generator.  The script loads a CSV of index observations and an Excel   *)
(* table of events, derives per-group columns, aligns the events to the    *)
(* NASDAQ series with a backward as-of join, builds four figures and       *)
(* writes index.html.                                                      *)
(*                                                                         *)
(* Dates are day numbers (days since 1970-01-01).  Floating point columns  *)
(* are modelled as exact rationals with the two special values NaN and     *)
(* inf; IEEE rounding is not modelled.                                     *)
(***************************************************************************)
EXTENDS Integers, Sequences, FiniteSets

VARIABLES pc, csv_file, xlsx_file, index_html, stdout,
          df, events, df_vol, nasdaq, events_aligned,
          fig1, fig2, fig3, fig4

vars == <<pc, csv_file, xlsx_file, index_html, stdout,
          df, events, df_vol, nasdaq, events_aligned,
          fig1, fig2, fig3, fig4>>

(***************************************************************************)
(* Bounds of the model.                                                    *)
(***************************************************************************)
MaxRows == 3

MaxAlignRows == 3

MaxEvents == 2

(***************************************************************************)
(* Float values: a rational n/d (d > 0), NaN or +inf.                      *)
(***************************************************************************)
Num(v) == [k |-> "num", n |-> v, d |-> 1]

Frac(a, b) == [k |-> "num", n |-> a, d |-> b]

NaN == [k |-> "nan", n |-> 0, d |-> 1]

Inf == [k |-> "inf", n |-> 0, d |-> 1]

notna(x) == x.k # "nan"

\* x / y on non-negative floats, as numpy divides: 0/0 is NaN, x/0 is inf.
FDiv(x, y) ==
    IF x.k = "nan" \/ y.k = "nan" THEN NaN
    ELSE IF x.k = "inf" THEN (IF y.k = "inf" THEN NaN ELSE Inf)
    ELSE IF y.k = "inf" THEN Num(0)
    ELSE IF y.n = 0 THEN (IF x.n = 0 THEN NaN ELSE Inf)
    ELSE Frac(x.n * y.d, x.d * y.n)

\* x * c for an integer c > 0.
FMul(x, c) ==
    IF x.k = "num" THEN Frac(x.n * c, x.d) ELSE x

\* Equality of float values (NaN equals nothing).
FEq(x, y) ==
    \/ x.k = "inf" /\ y.k = "inf"
    \/ x.k = "num" /\ y.k = "num" /\ x.n * y.d = y.n * x.d

(***************************************************************************)
(* Program constants.                                                      *)
(***************************************************************************)
\* pd.Timestamp("1997-01-01")
DotcomStart == 9862

\* pd.Timestamp("2002-12-31")
DotcomEnd == 12052

\* pd.Timestamp("2020-01-01")
IaStart == 18262

\* pd.Timestamp("2025-12-31")
IaEnd == 20453

None == "None"

period_labels(p) ==
    CASE p = "dotcom" -> "Burbuja puntocom (1997-2002)"
      [] p = "ia"     -> "Narrativa IA (2020-2025)"
      [] OTHER        -> "NaN"

IndexNames == <<"NASDAQ", "SP500">>

\* The content of index.html before the run (whatever an earlier run left).
PreviousHtml == [version |-> "previous", sections |-> << >>, charts |-> << >>]

CompletionNotice == "Visualizacion generada en 'index.html'"

(***************************************************************************)
(* Sorting.  String columns order lexicographically.                       *)
(***************************************************************************)
StrRank(s) ==
    CASE s = "NASDAQ" -> 1
      [] s = "SP500"  -> 2
      [] s = "dotcom" -> 1
      [] s = "ia"     -> 2
      [] OTHER        -> 3

KeyLess(a, b) ==
    \/ StrRank(a.index) < StrRank(b.index)
    \/ a.index = b.index /\ StrRank(a.period) < StrRank(b.period)
    \/ a.index = b.index /\ a.period = b.period /\ a.date < b.date

\* The rows of s in input order, unsorted.
UnsortedRows(s) == s

\* df.sort_values(["index", "period", "date"]); ties keep their order.
SortByIndexPeriodDate(s) ==
    LET pos(i) == 1 + Cardinality({j \in 1..Len(s) :
                        \/ KeyLess(s[j], s[i])
                        \/ ~KeyLess(s[i], s[j]) /\ j < i})
    IN  [p \in 1..Len(s) |-> s[CHOOSE i \in 1..Len(s) : pos(i) = p]]

\* sort_values("date"); ties keep their order (numpy sorts short arrays by
\* insertion).
SortByDate(s) ==
    LET pos(i) == 1 + Cardinality({j \in 1..Len(s) :
                        \/ s[j].date < s[i].date
                        \/ s[j].date = s[i].date /\ j < i})
    IN  [p \in 1..Len(s) |-> s[CHOOSE i \in 1..Len(s) : pos(i) = p]]

\* Boolean-mask row selection, df[mask]: the rows satisfying the mask, in order.
RECURSIVE SelectRows(_, _)
SelectRows(s, keep) ==
    IF s = << >> THEN << >>
    ELSE IF Head(s) \in keep THEN <<Head(s)>> \o SelectRows(Tail(s), keep)
    ELSE SelectRows(Tail(s), keep)

Rows(s) == {s[i] : i \in 1..Len(s)}

Column(s, c) == [i \in 1..Len(s) |-> s[i][c]]

(***************************************************************************)
(* Section 2 of the script: preparation of the observation table.          *)
(***************************************************************************)
\* df = df.sort_values(["index", "period", "date"])
SortedDf(s) == SortByIndexPeriodDate(s)

\* s.iloc[0] of the (index, period) group that row i of s belongs to.
GroupFirst(s, i) ==
    LET grp == {j \in 1..Len(s) : s[j].index = s[i].index /\ s[j].period = s[i].period}
    IN  s[CHOOSE j \in grp : \A m \in grp : j <= m]

\* groupby(["index", "period"])["close"].transform(lambda s: s / s.iloc[0] * 100)
CloseIndexed100(s, i) == FMul(FDiv(s[i].close, GroupFirst(s, i).close), 100)

\* Missing drawdowns filled with zero before scaling.
DrawdownPctFillna(x) == IF notna(x) THEN FMul(x, 100) ELSE Num(0)

\* df["drawdown"] * 100
DrawdownPct(x) == FMul(x, 100)

\* Lines 39-56: the sorted table with its derived columns.
PreparedDf(raw) ==
    LET s == SortedDf(raw)
    IN  [i \in 1..Len(s) |->
            [date              |-> s[i].date,
             index             |-> s[i].index,
             period            |-> s[i].period,
             close             |-> s[i].close,
             drawdown          |-> s[i].drawdown,
             rolling_vol_30d   |-> s[i].rolling_vol_30d,
             period_label      |-> period_labels(s[i].period),
             close_indexed_100 |-> CloseIndexed100(s, i),
             drawdown_pct      |-> DrawdownPct(s[i].drawdown)]]

\* The table without the notna filter.
DfVolUnfiltered(d) == d

\* df_vol = df[df["rolling_vol_30d"].notna()].copy()
DfVol(d) == SelectRows(d, {r \in Rows(d) : notna(r.rolling_vol_30d)})

(***************************************************************************)
(* Section 2.4: events aligned with the NASDAQ series.                     *)
(***************************************************************************)
\* nasdaq = df[df["index"] == "NASDAQ"].sort_values("date")
NasdaqOf(d) == SortByDate(SelectRows(d, {r \in Rows(d) : r.index = "NASDAQ"}))

\* The dotcom range without its upper bound.
infer_period_open_ended(date) ==
    IF DotcomStart <= date /\ date < IaStart THEN "dotcom"
    ELSE IF IaStart <= date /\ date <= IaEnd THEN "ia"
    ELSE None

\* def infer_period(date)

infer_period(date) ==
    IF DotcomStart <= date /\ date <= DotcomEnd THEN "dotcom"
    ELSE IF IaStart <= date /\ date <= IaEnd THEN "ia"
    ELSE None

\* events["period"] = events["date"].apply(infer_period)
\* events = events[events["period"].notna()].copy()
\* events["period_label"] = events["period"].map(period_labels)
EventsWithPeriod(ev) ==
    LET p == [i \in 1..Len(ev) |->
                [date         |-> ev[i].date,
                 event_name   |-> ev[i].event_name,
                 description  |-> ev[i].description,
                 period       |-> infer_period(ev[i].date),
                 period_label |-> period_labels(infer_period(ev[i].date))]]
    IN  SelectRows(p, {r \in Rows(p) : r.period # None})

\* A forward match: the first right row whose date is >= the key.
AsofForward(right, date) ==
    LET cands == {j \in 1..Len(right) : right[j].date >= date}
    IN  IF cands = {} THEN 0 ELSE CHOOSE j \in cands : \A m \in cands : j <= m

\* The right row a backward as-of join gives the left key: the last row of the
\* date-sorted right table whose date is <= the key; 0 when there is none.
AsofBackward(right, date) ==
    LET cands == {j \in 1..Len(right) : right[j].date <= date}
    IN  IF cands = {} THEN 0 ELSE CHOOSE j \in cands : \A m \in cands : m <= j

\* pd.merge_asof(events.sort_values("date"), nasdaq[[...]].sort_values("date"),
\*               on="date", direction="backward", suffixes=("_event", "_idx"))
merge_asof(ev, nq) ==
    LET left  == SortByDate(ev)
        right == SortByDate(nq)
    IN  [i \in 1..Len(left) |->
            LET j == AsofBackward(right, left[i].date)
            IN  [date               |-> left[i].date,
                 event_name         |-> left[i].event_name,
                 description        |-> left[i].description,
                 period_event       |-> left[i].period,
                 period_label_event |-> left[i].period_label,
                 close              |-> IF j = 0 THEN NaN ELSE right[j].close,
                 period_idx         |-> IF j = 0 THEN None ELSE right[j].period,
                 period_label_idx   |-> IF j = 0 THEN "NaN" ELSE right[j].period_label]]

\* The matched observation's period taken first.
PeriodFinalFromIdx(r) == IF r.period_idx # None THEN r.period_idx ELSE r.period_event

\* events_aligned["period_event"].where(period_event.notna(), period_idx)
PeriodFinal(r) == IF r.period_event # None THEN r.period_event ELSE r.period_idx

\* events_aligned["period_label_event"].where(..., period_label_idx)
PeriodLabelFinal(r) ==
    IF r.period_label_event # "NaN" THEN r.period_label_event ELSE r.period_label_idx

\* Lines 88-105: unified period columns, then the columns that are used.
UnifyPeriods(m) ==
    [i \in 1..Len(m) |->
        [date         |-> m[i].date,
         event_name   |-> m[i].event_name,
         description  |-> m[i].description,
         close        |-> m[i].close,
         period       |-> PeriodFinal(m[i]),
         period_label |-> PeriodLabelFinal(m[i])]]

(***************************************************************************)
(* Sections 3-6: the four figures.  A figure is the sequence of its traces *)
(* in the order add_trace is called.                                       *)
(***************************************************************************)
Scatter(name, mode, x, y, text) ==
    [name |-> name, mode |-> mode, x |-> x, y |-> y, text |-> text]

\* sub = d[d["period"] == period]; sub = sub[sub["index"] == idx_name]
SubTable(d, period, idx_name) ==
    SelectRows(d, {r \in Rows(d) : r.period = period /\ r.index = idx_name})

\* One line per index in the left (dotcom) panel, then in the right (ia) panel.
PanelTraces(d, ycol) ==
    [t \in 1..4 |->
        LET period   == IF t <= 2 THEN "dotcom" ELSE "ia"
            idx_name == IndexNames[IF t <= 2 THEN t ELSE t - 2]
            sub      == SubTable(d, period, idx_name)
        IN  Scatter(idx_name, "lines", Column(sub, "date"), Column(sub, ycol), << >>)]

\* Lines 115-187
Fig1(d) == PanelTraces(d, "close_indexed_100")

\* Lines 194-277
Fig2(d) == PanelTraces(d, "drawdown_pct")

\* Lines 283-352
Fig3(dv) == PanelTraces(dv, "rolling_vol_30d")

\* events_aligned[events_aligned["period"] == period]
EventsOfPeriod(ea, period) ==
    SelectRows(ea, {r \in Rows(ea) : r.period = period})

\* nasdaq[nasdaq["period"] == period]
NasdaqOfPeriod(nq, period) ==
    SelectRows(nq, {r \in Rows(nq) : r.period = period})

\* The price line of one period and, if the period has events, their markers.
Fig4Panel(nq, ea, period, line_name, marker_name) ==
    LET nq_p == NasdaqOfPeriod(nq, period)
        ev_p == EventsOfPeriod(ea, period)
    IN  <<Scatter(line_name, "lines", Column(nq_p, "date"), Column(nq_p, "close"), << >>)>>
        \o (IF ev_p # << >>
            THEN <<Scatter(marker_name, "markers", Column(ev_p, "date"),
                           Column(ev_p, "close"), Column(ev_p, "event_name"))>>
            ELSE << >>)

\* Lines 360-442
Fig4(nq, ea) ==
    Fig4Panel(nq, ea, "dotcom", "Nasdaq (dotcom)", "Eventos dotcom")
    \o Fig4Panel(nq, ea, "ia", "Nasdaq (IA)", "Eventos IA")

\* The fixed section order of the template.
Sections == <<"header", "capitulo1", "capitulo2", "capitulo3", "capitulo4", "footer">>

\* Lines 448-590: the figures interpolated into the template.
HtmlTemplate(f1, f2, f3, f4) ==
    [version |-> "generated", sections |-> Sections, charts |-> <<f1, f2, f3, f4>>]

(***************************************************************************)
(* The steps of the script.                                                *)
(***************************************************************************)
\* df = pd.read_csv(..., parse_dates=["date"])
LoadCsv ==
    /\ pc = "start"
    /\ df' = csv_file
    /\ pc' = "csv_loaded"
    /\ UNCHANGED <<csv_file, xlsx_file, index_html, stdout, events, df_vol, nasdaq,
                   events_aligned, fig1, fig2, fig3, fig4>>

\* read_csv raises (missing file, unparseable date, missing column).
LoadCsvError ==
    /\ pc = "start"
    /\ pc' = "load_csv_error"
    /\ UNCHANGED <<csv_file, xlsx_file, index_html, stdout, df, events, df_vol, nasdaq,
                   events_aligned, fig1, fig2, fig3, fig4>>

\* events = pd.read_excel(...); events["date"] = pd.to_datetime(events["date"])
LoadEvents ==
    /\ pc = "csv_loaded"
    /\ events' = xlsx_file
    /\ pc' = "loaded"
    /\ UNCHANGED <<csv_file, xlsx_file, index_html, stdout, df, df_vol, nasdaq,
                   events_aligned, fig1, fig2, fig3, fig4>>

\* A load error that has already opened index.html for writing.
LoadEventsErrorAfterOpen ==
    /\ pc = "csv_loaded"
    /\ pc' = "load_events_error"
    /\ index_html' = [version |-> "generated", sections |-> << >>, charts |-> << >>]
    /\ UNCHANGED <<csv_file, xlsx_file, stdout, df, events, df_vol, nasdaq,
                   events_aligned, fig1, fig2, fig3, fig4>>

\* read_excel or to_datetime raises.
LoadEventsError ==
    /\ pc = "csv_loaded"
    /\ pc' = "load_events_error"
    /\ UNCHANGED <<csv_file, xlsx_file, index_html, stdout, df, events, df_vol, nasdaq,
                   events_aligned, fig1, fig2, fig3, fig4>>

\* Lines 39-59
PrepareData ==
    /\ pc = "loaded"
    /\ df' = PreparedDf(df)
    /\ df_vol' = DfVol(df')
    /\ pc' = "prepared"
    /\ UNCHANGED <<csv_file, xlsx_file, index_html, stdout, events, nasdaq,
                   events_aligned, fig1, fig2, fig3, fig4>>

\* Lines 63-85
AlignEvents ==
    /\ pc = "prepared"
    /\ nasdaq' = NasdaqOf(df)
    /\ events' = EventsWithPeriod(events)
    /\ events_aligned' = merge_asof(events', nasdaq')
    /\ pc' = "merged"
    /\ UNCHANGED <<csv_file, xlsx_file, index_html, stdout, df, df_vol,
                   fig1, fig2, fig3, fig4>>

\* Lines 88-105
UnifyPeriodColumns ==
    /\ pc = "merged"
    /\ events_aligned' = UnifyPeriods(events_aligned)
    /\ pc' = "aligned"
    /\ UNCHANGED <<csv_file, xlsx_file, index_html, stdout, df, events, df_vol, nasdaq,
                   fig1, fig2, fig3, fig4>>

\* Lines 115-442
BuildCharts ==
    /\ pc = "aligned"
    /\ fig1' = Fig1(df)
    /\ fig2' = Fig2(df)
    /\ fig3' = Fig3(df_vol)
    /\ fig4' = Fig4(nasdaq, events_aligned)
    /\ pc' = "charted"
    /\ UNCHANGED <<csv_file, xlsx_file, index_html, stdout, df, events, df_vol, nasdaq,
                   events_aligned>>

\* Lines 448-593: to_html, the template, open("index.html", "w") and write.
ExportHtml ==
    /\ pc = "charted"
    /\ index_html' = HtmlTemplate(fig1, fig2, fig3, fig4)
    /\ pc' = "written"
    /\ UNCHANGED <<csv_file, xlsx_file, stdout, df, events, df_vol, nasdaq,
                   events_aligned, fig1, fig2, fig3, fig4>>

\* open("index.html", "w") raises: the destination is not writable.
WriteError ==
    /\ pc = "charted"
    /\ pc' = "write_error"
    /\ UNCHANGED <<csv_file, xlsx_file, index_html, stdout, df, events, df_vol, nasdaq,
                   events_aligned, fig1, fig2, fig3, fig4>>

\* print("Visualización generada en 'index.html'")
PrintDone ==
    /\ pc = "written"
    /\ stdout' = Append(stdout, CompletionNotice)
    /\ pc' = "done"
    /\ UNCHANGED <<csv_file, xlsx_file, index_html, df, events, df_vol, nasdaq,
                   events_aligned, fig1, fig2, fig3, fig4>>

Next ==
    \/ LoadCsv
    \/ LoadCsvError
    \/ LoadEvents
    \/ LoadEventsError
    \/ PrepareData
    \/ AlignEvents
    \/ UnifyPeriodColumns
    \/ BuildCharts
    \/ ExportHtml
    \/ WriteError
    \/ PrintDone

(***************************************************************************)
(* Input files.                                                            *)
(***************************************************************************)
Observation(date, index, period, close, drawdown, vol) ==
    [date |-> date, index |-> index, period |-> period, close |-> close,
     drawdown |-> drawdown, rolling_vol_30d |-> vol]

\* Tables of 1 to n rows of S, unique on (index, period, date).
Tables(S, n) ==
    {s \in UNION {[1..k -> S] : k \in 1..n} :
        \A i, j \in 1..Len(s) :
            (s[i].index = s[j].index /\ s[i].period = s[j].period
                /\ s[i].date = s[j].date) => i = j}

\* Observations whose close varies: 1999-01-01 and 1999-01-04 in four groups.
RebaseRows ==
    {Observation(date, index, period, Num(c), Frac(-25, 100), Frac(2, 100)) :
        date \in {10592, 10595}, index \in {"NASDAQ", "SP500"},
        period \in {"dotcom", "ia"}, c \in {0, 100, 110}}

\* Observations whose drawdown and rolling volatility may be missing.
MetricRows ==
    {Observation(10592, index, period, Num(100), dd, vol) :
        index \in {"NASDAQ", "SP500"}, period \in {"dotcom", "ia"},
        dd \in {NaN, Frac(-25, 100)}, vol \in {NaN, Frac(2, 100)}}

\* NASDAQ on 1999-01-01, 2023-11-29 and 2023-12-01; SP500 on 1999-01-04 and
\* 2023-11-30.  The period label of a row is the period its date lies in.
AlignRows ==
    {Observation(10592, "NASDAQ", "dotcom", Num(2200), Frac(-25, 100), Frac(2, 100)),
     Observation(19690, "NASDAQ", "ia", Num(14200), Frac(-25, 100), Frac(2, 100)),
     Observation(19692, "NASDAQ", "ia", Num(14300), Frac(-25, 100), Frac(2, 100)),
     Observation(10595, "SP500", "dotcom", Num(1200), Frac(-25, 100), Frac(2, 100)),
     Observation(19691, "SP500", "ia", Num(4500), Frac(-25, 100), Frac(2, 100))}

\* 1996-12-31, 1997-01-01, 2001-03-15, 2003-01-01, 2020-01-01, 2023-11-30
EventDates == {9861, 9862, 11396, 12053, 18262, 19691}

EventNames == <<"E1", "E2", "E3", "E4">>

Event(date, name) == [date |-> date, event_name |-> name, description |-> "text"]

\* Event tables of 1 to n rows; the i-th row is named EventNames[i].
EventTables(n) ==
    {[i \in 1..Len(d) |-> Event(d[i], EventNames[i])] :
        d \in UNION {[1..k -> EventDates] : k \in 1..n}}

InitState ==
    /\ pc = "start"
    /\ index_html = PreviousHtml
    /\ stdout = << >>
    /\ df = << >>
    /\ events = << >>
    /\ df_vol = << >>
    /\ nasdaq = << >>
    /\ events_aligned = << >>
    /\ fig1 = << >>
    /\ fig2 = << >>
    /\ fig3 = << >>
    /\ fig4 = << >>

\* Runs over event tables and NASDAQ/SP500 observations around the events.
Init ==
    /\ csv_file \in Tables(AlignRows, MaxAlignRows)
    /\ xlsx_file \in EventTables(MaxEvents)
    /\ InitState

Spec == Init /\ [][Next]_vars

\* Runs over observation tables in any row order, with one event.
InitDerive ==
    /\ csv_file \in Tables(RebaseRows, MaxRows) \cup Tables(MetricRows, MaxRows)
    /\ xlsx_file = <<Event(19691, "E1")>>
    /\ InitState

SpecDerive == InitDerive /\ [][Next]_vars

(***************************************************************************)
(* Vocabulary of the properties.                                           *)
(***************************************************************************)
Prepared == pc \in {"prepared", "merged", "aligned", "charted", "written",
                    "done", "write_error"}

Merged == pc = "merged"

Aligned == pc \in {"aligned", "charted", "written", "done", "write_error"}

Charted == pc \in {"charted", "written", "done", "write_error"}

\* The NASDAQ observations of the input file.
NasdaqInput == {r \in Rows(csv_file) : r.index = "NASDAQ"}

SameKey(a, b) == a.index = b.index /\ a.period = b.period /\ a.date = b.date

InDotcomRange(date) == DotcomStart <= date /\ date <= DotcomEnd

InIaRange(date) == IaStart <= date /\ date <= IaEnd

\* The marker traces of chart 4.
MarkerTraces == {fig4[t] : t \in {u \in 1..Len(fig4) : fig4[u].mode = "markers"}}

\* Event x of the input table is a point of a marker trace of chart 4.
IsMarker(x) ==
    \E m \in MarkerTraces : \E k \in 1..Len(m.x) :
        m.x[k] = x.date /\ m.text[k] = x.event_name

(***************************************************************************)
(* C1: every aligned event that has a match carries the close of a NASDAQ  *)
(* observation dated on or before the event, and no NASDAQ observation     *)
(* lies after that observation and on or before the event.                 *)
(***************************************************************************)
C1_AsOfCorrect ==
    (Merged \/ Aligned) =>
        \A i \in 1..Len(events_aligned) :
            LET e == events_aligned[i]
            IN  notna(e.close) =>
                    \E r \in NasdaqInput :
                        /\ r.date <= e.date
                        /\ r.close = e.close
                        /\ ~\E r2 \in NasdaqInput :
                                r.date < r2.date /\ r2.date <= e.date

\* The event of 2023-11-30 between the NASDAQ rows of 2023-11-29 (14200) and
\* 2023-12-01 (14300) is aligned to 14200.
C1_Witness ==
    /\ Merged
    /\ \E r1, r2 \in NasdaqInput :
           r1.date = 19690 /\ r1.close = Num(14200) /\ r2.date = 19692
    /\ \E i \in 1..Len(events_aligned) :
           events_aligned[i].date = 19691 /\ events_aligned[i].close = Num(14200)

(***************************************************************************)
(* C2: an event dated inside one of the two period ranges for which no     *)
(* NASDAQ observation exists on or before its date is not a point of the   *)
(* marker traces of chart 4.                                               *)
(***************************************************************************)
C2_UnmatchedEventNotPlotted ==
    Charted =>
        \A x \in Rows(xlsx_file) :
            (/\ InDotcomRange(x.date) \/ InIaRange(x.date)
             /\ ~\E r \in NasdaqInput : r.date <= x.date)
                => ~IsMarker(x)

(***************************************************************************)
(* C3 as stated: an event assigned a period lies strictly inside the       *)
(* period's bounds, no event has two periods, and events outside both      *)
(* ranges are dropped.                                                     *)
(***************************************************************************)
C3_StrictlyWithinBounds ==
    (Merged \/ Aligned) =>
        /\ \A e \in Rows(events) :
               /\ e.period = "dotcom" => DotcomStart < e.date /\ e.date < DotcomEnd
               /\ e.period = "ia" => IaStart < e.date /\ e.date < IaEnd
        /\ \A e1, e2 \in Rows(events) :
               (e1.date = e2.date /\ e1.event_name = e2.event_name)
                   => e1.period = e2.period
        /\ \A x \in Rows(xlsx_file) :
               ~(InDotcomRange(x.date) \/ InIaRange(x.date)) =>
                   /\ ~\E e \in Rows(events) :
                          e.date = x.date /\ e.event_name = x.event_name
                   /\ ~\E e \in Rows(events_aligned) :
                          e.date = x.date /\ e.event_name = x.event_name
                   /\ ~IsMarker(x)

(***************************************************************************)
(* C3 as amended: an event assigned a period lies within the period's      *)
(* bounds, the bounds included; no event has two periods; events outside   *)
(* both ranges are dropped before the alignment and are in no chart.       *)
(***************************************************************************)
C3_WithinInclusiveBounds ==
    (Merged \/ Aligned) =>
        /\ \A e \in Rows(events) :
               /\ e.period \in {"dotcom", "ia"}
               /\ e.period = "dotcom" => DotcomStart <= e.date /\ e.date <= DotcomEnd
               /\ e.period = "ia" => IaStart <= e.date /\ e.date <= IaEnd
        /\ \A e1, e2 \in Rows(events) :
               (e1.date = e2.date /\ e1.event_name = e2.event_name)
                   => e1.period = e2.period
        /\ \A x \in Rows(xlsx_file) :
               ~(InDotcomRange(x.date) \/ InIaRange(x.date)) =>
                   /\ ~\E e \in Rows(events) :
                          e.date = x.date /\ e.event_name = x.event_name
                   /\ ~\E e \in Rows(events_aligned) :
                          e.date = x.date /\ e.event_name = x.event_name
                   /\ ~IsMarker(x)

\* An event on the first day of a range is assigned the period while an event
\* of 2003-01-01 in the same table has been dropped.
C3_Witness ==
    /\ Charted
    /\ \E x \in Rows(xlsx_file) : x.date = 12053
    /\ \E e \in Rows(events) : e.date = DotcomStart /\ e.period = "dotcom"
    /\ \E e \in Rows(events_aligned) : e.date = DotcomStart

(***************************************************************************)
(* C4: whatever the row order of the input file, in every (index, period)  *)
(* group whose chronologically first close is non-zero the rebased column  *)
(* is 100 at the earliest date and close / first close * 100 at each row.  *)
(***************************************************************************)
C4_RebasedTo100 ==
    Prepared =>
        /\ Len(df) = Len(csv_file)
        /\ \A x \in Rows(csv_file) :
               \E i \in 1..Len(df) : SameKey(df[i], x) /\ df[i].close = x.close
        /\ \A i \in 1..Len(df) :
               LET r     == df[i]
                   grp   == {x \in Rows(csv_file) :
                                x.index = r.index /\ x.period = r.period}
                   first == CHOOSE x \in grp : \A y \in grp : x.date <= y.date
                   v     == r.close_indexed_100
               IN  first.close.n # 0 =>
                       /\ v.k = "num"
                       /\ v.n * first.close.n = r.close.n * 100 * v.d
                       /\ r.date = first.date => FEq(v, Num(100))

\* The input file lists NASDAQ 1999-01-04 (110) before NASDAQ 1999-01-01 (100);
\* the rebased values are 110 and 100.
C4_Witness ==
    /\ Prepared
    /\ \E i, j \in 1..Len(csv_file) :
           /\ i < j
           /\ SameKey(csv_file[i], Observation(10595, "NASDAQ", "dotcom", 0, 0, 0))
           /\ csv_file[i].close = Num(110)
           /\ SameKey(csv_file[j], Observation(10592, "NASDAQ", "dotcom", 0, 0, 0))
           /\ csv_file[j].close = Num(100)
    /\ \E i, j \in 1..Len(df) :
           /\ df[i].date = 10592 /\ FEq(df[i].close_indexed_100, Num(100))
           /\ df[j].date = 10595 /\ FEq(df[j].close_indexed_100, Num(110))
           /\ df[i].index = "NASDAQ" /\ df[j].index = "NASDAQ"
           /\ df[i].period = "dotcom" /\ df[j].period = "dotcom"

(***************************************************************************)
(* C5: the period of the observation matched to an aligned event is the    *)
(* period inferred from the event's date.                                  *)
(***************************************************************************)
C5_MatchedPeriodAgrees ==
    Merged =>
        \A i \in 1..Len(events_aligned) :
            notna(events_aligned[i].close) =>
                events_aligned[i].period_idx = events_aligned[i].period_event

(***************************************************************************)
(* C7: df_vol holds exactly the input rows whose rolling_vol_30d is        *)
(* defined, and each trace of chart 3 holds exactly those of its index and *)
(* period.                                                                 *)
(***************************************************************************)
C7_VolDefinedRows ==
    /\ Prepared =>
           /\ \A i \in 1..Len(df_vol) : notna(df_vol[i].rolling_vol_30d)
           /\ \A x \in Rows(csv_file) :
                  notna(x.rolling_vol_30d) =>
                      \E i \in 1..Len(df_vol) :
                          /\ SameKey(df_vol[i], x)
                          /\ df_vol[i].rolling_vol_30d = x.rolling_vol_30d
           /\ Len(df_vol) = Cardinality({x \in Rows(csv_file) : notna(x.rolling_vol_30d)})
    /\ Charted =>
           \A t \in 1..4 :
               LET period   == IF t <= 2 THEN "dotcom" ELSE "ia"
                   idx_name == IF t \in {1, 3} THEN "NASDAQ" ELSE "SP500"
                   defined  == {x \in Rows(csv_file) :
                                   /\ x.index = idx_name /\ x.period = period
                                   /\ notna(x.rolling_vol_30d)}
               IN  /\ Len(fig3[t].x) = Cardinality(defined)
                   /\ Len(fig3[t].y) = Cardinality(defined)
                   /\ \A k \in 1..Len(fig3[t].y) : notna(fig3[t].y[k])
                   /\ \A x \in defined :
                          \E k \in 1..Len(fig3[t].x) :
                              /\ fig3[t].x[k] = x.date
                              /\ fig3[t].y[k] = x.rolling_vol_30d

\* NASDAQ has a row with a defined volatility in one period and a row with an
\* undefined one in the other: the first is a point of chart 3, the second not.
C7_Witness ==
    /\ Charted
    /\ \E x, y \in Rows(csv_file) :
           /\ x.index = "NASDAQ" /\ x.period = "dotcom" /\ notna(x.rolling_vol_30d)
           /\ y.index = "NASDAQ" /\ y.period = "ia" /\ ~notna(y.rolling_vol_30d)
    /\ Len(fig3[1].x) = 1
    /\ Len(fig3[3].x) = 0
    /\ Len(df_vol) < Len(df)

(***************************************************************************)
(* C8: drawdown_pct is drawdown times 100 in every row, and it is missing  *)
(* exactly when drawdown is missing.                                       *)
(***************************************************************************)
C8_DrawdownPct ==
    Prepared =>
        /\ Len(df) = Len(csv_file)
        /\ \A x \in Rows(csv_file) :
               \E i \in 1..Len(df) : SameKey(df[i], x) /\ df[i].drawdown = x.drawdown
        /\ \A i \in 1..Len(df) :
               LET dd  == df[i].drawdown
                   pct == df[i].drawdown_pct
               IN  /\ notna(pct) <=> notna(dd)
                   /\ notna(dd) =>
                          /\ pct.k = "num"
                          /\ pct.n * dd.d = dd.n * 100 * pct.d

\* One row with a missing drawdown and one with a drawdown of -0.25 (-25 %).
C8_Witness ==
    /\ Prepared
    /\ \E i, j \in 1..Len(df) :
           /\ df[i].drawdown = NaN /\ df[i].drawdown_pct = NaN
           /\ df[j].drawdown = Frac(-25, 100) /\ FEq(df[j].drawdown_pct, Num(-25))

(***************************************************************************)
(* C9: every event that reaches the join has an inferred period, so the    *)
(* fallback to the matched observation's period is never taken: the final  *)
(* period and label of an aligned event are the event's own.               *)
(***************************************************************************)
C9_FallbackNeverTaken ==
    /\ Merged =>
           \A i \in 1..Len(events_aligned) :
               /\ events_aligned[i].period_event # None
               /\ events_aligned[i].period_label_event # "NaN"
    /\ Aligned =>
           /\ Len(events_aligned) = Len(events)
           /\ \A i \in 1..Len(events_aligned) :
                  \E e \in Rows(events) :
                      /\ e.date = events_aligned[i].date
                      /\ e.event_name = events_aligned[i].event_name
                      /\ e.period = events_aligned[i].period
                      /\ e.period_label = events_aligned[i].period_label

\* The event of 2020-01-01 matched to the dotcom observation of 1999-01-01
\* keeps its own period "ia".
C9_Witness ==
    /\ Aligned
    /\ \E i \in 1..Len(events_aligned) :
           /\ events_aligned[i].date = 18262
           /\ events_aligned[i].close = Num(2200)
           /\ events_aligned[i].period = "ia"

(***************************************************************************)
(* C10: index.html is written only after both inputs are loaded and the    *)
(* four charts are built; a run ending in a load error leaves the previous *)
(* index.html unchanged and prints no completion notice.                   *)
(***************************************************************************)
C10_WriteOnlyAfterLoadAndCharts ==
    /\ index_html # PreviousHtml =>
           /\ pc \in {"written", "done"}
           /\ fig1 # << >> /\ fig2 # << >> /\ fig3 # << >> /\ fig4 # << >>
           /\ index_html.charts = <<fig1, fig2, fig3, fig4>>
    /\ pc \in {"load_csv_error", "load_events_error"} =>
           /\ index_html = PreviousHtml
           /\ stdout = << >>
           /\ fig1 = << >> /\ fig4 = << >>
    /\ (fig1 # << >> \/ fig2 # << >> \/ fig3 # << >> \/ fig4 # << >>) => Charted
    /\ events_aligned # << >> => (Merged \/ Aligned)
    /\ stdout # << >> =>
           /\ pc = "done"
           /\ stdout = <<CompletionNotice>>
           /\ index_html # PreviousHtml

\* The CSV has been loaded and the event table then fails to load.
C10_Witness ==
    /\ pc = "load_events_error"
    /\ Len(df) > 0
    /\ index_html = PreviousHtml

====
